---- MODULE Spec2Model ----
(***************************************************************************)
(* tap-confluence: the extraction pipeline of ConfluenceStream.            *)
(*                                                                         *)
(*   get_url_params   builds the CQL expression and the request parameters *)
(*   parse_response   yields the "results" array of a page                 *)
(*   get_next_url     reads the "next" relation of a page's "_links"       *)
(*   post_process     stamps, converts and keeps or drops one record       *)
(*   fetch_attachment downloads an attachment to a temporary file and      *)
(*                    converts it                                          *)
(*                                                                         *)
(* A Python dict is a function whose DOMAIN is the set of its keys; None   *)
(* is the absent value <<>> where a list or an optional string is meant.   *)
(* A raised exception is the field exc of an operator's result.            *)
(***************************************************************************)
EXTENDS Integers, Sequences, FiniteSets, TLC

VARIABLES
    config,      \* the tap's settings (self.config)
    env,         \* the environment variables read with os.getenv
    checkpoint,  \* get_starting_replication_key_value(context); "" is None
    pc,          \* position of the sync: prepare, send, records, done, failed
    token,       \* the paginator's current value: <<>> (None) or <<url>>
    cql,         \* the predicate list built by the last get_url_params
    request,     \* the last request prepared: <<>> or <<[path, params]>>
    nrequests,   \* number of requests prepared
    resp,        \* the last response's JSON body, its results array by its
                 \* length only: <<>> or <<json>>
    nexts,       \* per response received: did its "_links" declare "next"
    batches,     \* number of responses whose results were yielded
    queue,       \* raw records of the current batch not yet post-processed
    last,        \* what the last post_process call did: <<>> or <<outcome>>
    tempFiles    \* names of the temporary files that exist on disk

vars == <<config, env, checkpoint, pc, token, cql, request, nrequests, resp,
          nexts, batches, queue, last, tempFiles>>

(***************************************************************************)
(* Bounds of the model.                                                    *)
(***************************************************************************)
MaxPages == 4
MaxBatch == 2
MaxList == 2

(***************************************************************************)
(* Python helpers.                                                         *)
(***************************************************************************)
None == <<>>

Some(v) == <<v>>

\* dict.get(key, default)
Get(d, k, default) == IF k \in DOMAIN d THEN d[k] ELSE default

\* sep.join(items)
RECURSIVE Join(_, _)
Join(items, sep) ==
    IF items = <<>> THEN ""
    ELSE IF Len(items) = 1 THEN items[1]
    ELSE items[1] \o sep \o Join(Tail(items), sep)

\* [x for x in items if x != drop]
RECURSIVE Without(_, _)
Without(items, drop) ==
    IF items = <<>> THEN <<>>
    ELSE IF items[1] = drop THEN Without(Tail(items), drop)
    ELSE <<items[1]>> \o Without(Tail(items), drop)

\* dict.update(pairs): later pairs win over earlier ones and over d
RECURSIVE Update(_, _)
Update(d, pairs) ==
    IF pairs = <<>> THEN d
    ELSE Update((pairs[1][1] :> pairs[1][2]) @@ d, Tail(pairs))

(***************************************************************************)
(* Text of an environment variable: a sequence of tokens, each a word, a   *)
(* comma or a blank.  str.split(",") and str.strip() work on the tokens.   *)
(***************************************************************************)
Comma == ","

Blank == " "

\* env_value.split(","): the pieces between commas (always at least one)
RECURSIVE Split(_, _)
Split(text, piece) ==
    IF text = <<>> THEN <<piece>>
    ELSE IF text[1] = Comma THEN <<piece>> \o Split(Tail(text), <<>>)
    ELSE Split(Tail(text), Append(piece, text[1]))

RECURSIVE LStrip(_)
LStrip(piece) ==
    IF piece # <<>> /\ piece[1] = Blank THEN LStrip(Tail(piece)) ELSE piece

RECURSIVE RStrip(_)
RStrip(piece) ==
    IF piece # <<>> /\ piece[Len(piece)] = Blank
    THEN RStrip(SubSeq(piece, 1, Len(piece) - 1))
    ELSE piece

\* item.strip(), as one string
Strip(piece) == Join(RStrip(LStrip(piece)), "")

\* __get_list_from_config_or_env: the environment wins over the settings
GetListFromConfigOrEnv(cfg, environ, config_key, env_key) ==
    LET env_value == Get(environ, env_key, None)
        config_value == Get(cfg, config_key, None)
        pieces == Split(env_value, <<>>)
    IN  IF env_value # <<>> THEN [i \in 1..Len(pieces) |-> Strip(pieces[i])]
        ELSE IF config_value # <<>> THEN config_value
        ELSE <<>>

(***************************************************************************)
(* get_url_params: the CQL predicates.                                     *)
(***************************************************************************)
LastModified(ts) == "lastmodified > '" \o ts \o "'"

ExtensionTerms(file_extensions) ==
    [i \in 1..Len(file_extensions) |->
        "sitesearch ~ \"file.extension:" \o file_extensions[i] \o "\""]

SpacePredicates(space_keys) ==
    IF Len(space_keys) > 0
    THEN <<"space in (" \o Join(space_keys, ",") \o ")">>
    ELSE <<>>

\* a plausible slip: the configured start date shadows the checkpoint
TimestampPredicatesStartDateFirst(start_value, start_date) ==
    IF start_date # "" THEN <<LastModified(start_date)>>
    ELSE IF start_value # "" THEN <<LastModified(start_value)>>
    ELSE <<>>

TimestampPredicates(start_value, start_date) ==
    IF start_value # "" THEN <<LastModified(start_value)>>
    ELSE IF start_date # "" THEN <<LastModified(start_date)>>
    ELSE <<>>

\* a plausible slip: "attachment" stays in the explicit type list
TypePredicatesKeepAttachment(content_types, file_extensions) ==
    IF Len(content_types) > 0 /\ Len(file_extensions) = 0
    THEN <<"type in (" \o Join(content_types, ",") \o ")">>
    ELSE IF Len(content_types) = 0 /\ Len(file_extensions) > 0
    THEN <<"((type != \"attachment\") OR (type = attachment AND ("
           \o Join(ExtensionTerms(file_extensions), " OR ") \o ")))">>
    ELSE IF Len(content_types) > 0 /\ Len(file_extensions) > 0
    THEN <<"((type in (" \o Join(content_types, ",") \o ")) OR ("
           \o "type = attachment AND ("
           \o Join(ExtensionTerms(file_extensions), " OR ") \o ")))">>
    ELSE <<>>

TypePredicates(content_types, file_extensions) ==
    IF Len(content_types) > 0 /\ Len(file_extensions) = 0
    THEN <<"type in (" \o Join(content_types, ",") \o ")">>
    ELSE IF Len(content_types) = 0 /\ Len(file_extensions) > 0
    THEN <<"((type != \"attachment\") OR (type = attachment AND ("
           \o Join(ExtensionTerms(file_extensions), " OR ") \o ")))">>
    ELSE IF Len(content_types) > 0 /\ Len(file_extensions) > 0
    THEN <<"((type in (" \o Join(Without(content_types, "attachment"), ",")
           \o ")) OR (" \o "type = attachment AND ("
           \o Join(ExtensionTerms(file_extensions), " OR ") \o ")))">>
    ELSE <<>>

SpaceKeys(cfg, environ) ==
    GetListFromConfigOrEnv(cfg, environ, "space_keys", "SPACE_KEYS")

ContentTypes(cfg, environ) ==
    GetListFromConfigOrEnv(cfg, environ, "content_types", "CONTENT_TYPES")

FileExtensions(cfg, environ) ==
    GetListFromConfigOrEnv(cfg, environ, "file_extensions", "FILE_EXTENSIONS")

\* the list cql of get_url_params
BuildCql(cfg, environ, start_value) ==
    SpacePredicates(SpaceKeys(cfg, environ))
    \o TimestampPredicates(start_value, Get(cfg, "start_date", ""))
    \o TypePredicates(ContentTypes(cfg, environ), FileExtensions(cfg, environ))

\* ConfluenceStream.expand and ConfluenceStream.path
expand == <<>>

path == "/content/search"

\* urllib.parse.parse_qsl(query): the key=value fields, blank values dropped
RECURSIVE ParseQsl(_)
ParseQsl(query) ==
    IF query = <<>> THEN <<>>
    ELSE IF query[1][2] = "" THEN ParseQsl(Tail(query))
    ELSE <<query[1]>> \o ParseQsl(Tail(query))

\* a plausible slip: the builder's parameters win over the next link's
GetUrlParamsBuilderWins(cfg, environ, start_value, next_page_token) ==
    LET params ==
            [expand |-> Join(expand, ","),
             cql |-> Join(BuildCql(cfg, environ, start_value), " AND ")
                     \o " ORDER BY lastmodified"]
    IN  IF next_page_token # None
        THEN params @@ Update(<<>>, ParseQsl(next_page_token[1].query))
        ELSE params

GetUrlParams(cfg, environ, start_value, next_page_token) ==
    LET params ==
            [expand |-> Join(expand, ","),
             cql |-> Join(BuildCql(cfg, environ, start_value), " AND ")
                     \o " ORDER BY lastmodified"]
    IN  IF next_page_token # None
        THEN Update(params, ParseQsl(next_page_token[1].query))
        ELSE params

(***************************************************************************)
(* Records.  A raw record is a dict; version.when is an ISO-8601 text,     *)
(* modelled by its parts, or a text datetime.fromisoformat rejects.        *)
(***************************************************************************)
When1 == [date |-> "2024-01-01", hh |-> "10", mm |-> "30", ss |-> "15",
          tz |-> "+02:00"]

When2 == [date |-> "2024-01-02", hh |-> "09", mm |-> "05", ss |-> "59",
          tz |-> "+00:00"]

BadWhen == [text |-> "yesterday"]

IsIsoFormat(when) == "date" \in DOMAIN when

\* datetime.fromisoformat(when).strftime("%Y-%m-%d %H:%M")
ModifiedTime(when) == when.date \o " " \o when.hh \o ":" \o when.mm

Html == "<p>Hi</p>"

TypeFields == {<<>>, [type |-> "page"], [type |-> "attachment"]}

VersionFields ==
    {<<>>, [version |-> <<>>], [version |-> [when |-> When1]],
     [version |-> [when |-> When2]], [version |-> [when |-> BadWhen]]}

LinksFields ==
    {<<>>, [_links |-> <<>>], [_links |-> [download |-> "/download/a.pdf"]]}

TitleFields == {<<>>, [title |-> "a.pdf"]}

BodyFields ==
    {<<>>, [body |-> <<>>], [body |-> [storage |-> [value |-> ""]]],
     [body |-> [storage |-> [value |-> Html]]]}

\* every raw record of the model
AllRows ==
    {[id |-> "1"] @@ t @@ v @@ l @@ ti @@ b :
        t \in TypeFields, v \in VersionFields, l \in LinksFields,
        ti \in TitleFields, b \in BodyFields}

(***************************************************************************)
(* AttachmentFetcher.fetch_attachment.  fault names the first step that    *)
(* fails: connect (requests.get), status (raise_for_status), write         *)
(* (iter_content / temp_file.write), convert (converter.convert), export   *)
(* (export_to_markdown), or none; markdown is what the export returns.     *)
(***************************************************************************)
Faults == {"none", "connect", "status", "write", "convert", "export"}

Markdowns == {"", "# Hi"}

\* subclasses of requests.exceptions.RequestException
RequestExceptions == {"ConnectionError", "HTTPError", "ChunkedEncodingError"}

\* the body of the try block: exc is the exception that leaves it
FetchTry(fault, markdown, files, fid) ==
    IF fault = "connect"
    THEN [exc |-> "ConnectionError", ret |-> None, files |-> files, created |-> 0]
    ELSE IF fault = "status"
    THEN [exc |-> "HTTPError", ret |-> None, files |-> files, created |-> 0]
    ELSE IF fault = "write"
    THEN [exc |-> "ChunkedEncodingError", ret |-> None,
          files |-> files \cup {fid}, created |-> fid]
    ELSE IF fault = "convert"
    THEN [exc |-> "ConversionError", ret |-> None,
          files |-> files \cup {fid}, created |-> fid]
    ELSE IF fault = "export"
    THEN [exc |-> "ConversionError", ret |-> None,
          files |-> (files \cup {fid}) \ {fid}, created |-> fid]
    ELSE [exc |-> "none", ret |-> Some(markdown),
          files |-> (files \cup {fid}) \ {fid}, created |-> fid]

\* a plausible slip: only transport errors are caught
FetchAttachmentOnlyRequestErrors(fault, markdown, files, fid) ==
    LET t == FetchTry(fault, markdown, files, fid)
    IN  IF t.exc \in RequestExceptions
        THEN [t EXCEPT !.exc = "none", !.ret = None]
        ELSE t

FetchAttachment(fault, markdown, files, fid) ==
    LET t == FetchTry(fault, markdown, files, fid)
    IN  IF t.exc \in RequestExceptions
        THEN [t EXCEPT !.exc = "none", !.ret = None]
        ELSE IF t.exc # "none"
        THEN [t EXCEPT !.exc = "none", !.ret = None]
        ELSE t

(***************************************************************************)
(* ConfluenceStream.post_process.  conv is what convert_string followed by *)
(* export_to_markdown does with a body: "raise", or the markdown returned. *)
(***************************************************************************)
ConvOutcomes == {"raise", "", "Hi"}

\* row["body"]["storage"]["value"] = markdown
SetBodyValue(row, markdown) ==
    ("body" :> (("storage" :> (("value" :> markdown) @@ row.body.storage))
                @@ row.body)) @@ row

CanSetBodyValue(row) ==
    "body" \in DOMAIN row /\ "storage" \in DOMAIN row.body

Outcome(exc, ret, files, created, fetched, converted) ==
    [exc |-> exc, ret |-> ret, files |-> files, created |-> created,
     fetched |-> fetched, converted |-> converted]

\* the attachment branch, on the stamped row
PostProcessAttachment(row, fault, markdown, files, fid) ==
    LET link == Get(Get(row, "_links", <<>>), "download", "")
        f == FetchAttachment(fault, markdown, files, fid)
    IN  IF link = "" THEN Outcome("none", None, files, 0, FALSE, FALSE)
        ELSE IF f.exc # "none"
        THEN Outcome(f.exc, None, f.files, f.created, TRUE, FALSE)
        ELSE IF f.ret = None \/ f.ret = Some("")
        THEN Outcome("none", None, f.files, f.created, TRUE, FALSE)
        ELSE IF ~CanSetBodyValue(row)
        THEN Outcome("KeyError", None, f.files, f.created, TRUE, FALSE)
        ELSE Outcome("none", Some(SetBodyValue(row, f.ret[1])), f.files,
                     f.created, TRUE, FALSE)

\* a plausible slip: a record with no body markup is dropped
PostProcessInlineDropsEmpty(row, conv, files) ==
    LET content == Get(Get(Get(row, "body", <<>>), "storage", <<>>), "value", "")
    IN  IF content = "" THEN Outcome("none", None, files, 0, FALSE, FALSE)
        ELSE IF conv = "raise"
        THEN Outcome("ConversionError", None, files, 0, FALSE, TRUE)
        ELSE IF conv = ""
        THEN Outcome("none", None, files, 0, FALSE, TRUE)
        ELSE Outcome("none", Some(SetBodyValue(row, conv)), files, 0, FALSE, TRUE)

\* the inline-body branch, on the stamped row
PostProcessInline(row, conv, files) ==
    LET content == Get(Get(Get(row, "body", <<>>), "storage", <<>>), "value", "")
    IN  IF content = "" THEN Outcome("none", Some(row), files, 0, FALSE, FALSE)
        ELSE IF conv = "raise"
        THEN Outcome("ConversionError", None, files, 0, FALSE, TRUE)
        ELSE IF conv = ""
        THEN Outcome("none", None, files, 0, FALSE, TRUE)
        ELSE Outcome("none", Some(SetBodyValue(row, conv)), files, 0, FALSE, TRUE)

PostProcess(row, conv, fault, markdown, files, fid) ==
    IF "version" \notin DOMAIN row
    THEN Outcome("AttributeError", None, files, 0, FALSE, FALSE)
    ELSE IF "when" \notin DOMAIN row.version
    THEN Outcome("TypeError", None, files, 0, FALSE, FALSE)
    ELSE IF ~IsIsoFormat(row.version.when)
    THEN Outcome("ValueError", None, files, 0, FALSE, FALSE)
    ELSE LET stamped == ("_modified_time" :> ModifiedTime(row.version.when)) @@ row
         IN  IF "type" \in DOMAIN row /\ row.type = "attachment"
             THEN PostProcessAttachment(stamped, fault, markdown, files, fid)
             ELSE PostProcessInline(stamped, conv, files)

(***************************************************************************)
(* Pages.  The JSON body of a response is a dict that may hold "results"   *)
(* and "_links"; "_links" may hold "base" and "next".  A link is its path  *)
(* and its query fields; the empty text is EmptyLink.                      *)
(***************************************************************************)
EmptyLink == [path |-> "", query |-> <<>>]

Next1 ==
    [path |-> "/rest/api/content/search",
     query |-> << <<"cql", "type=page">>, <<"limit", "10">>, <<"start", "10">> >>]

Next2 ==
    [path |-> "/rest/api/content/search",
     query |-> << <<"start", "20">>, <<"cursor", "">> >>]

BaseUrl == "https://wiki.example.com"

LinksFieldsOfPage ==
    {<<>>, [_links |-> [base |-> BaseUrl]],
     [_links |-> [base |-> BaseUrl, next |-> EmptyLink]],
     [_links |-> [base |-> BaseUrl, next |-> Next1]],
     [_links |-> [base |-> BaseUrl, next |-> Next2]]}

\* not next_result
Falsy(link) == link = EmptyLink

\* a plausible slip: the missing "next" is not checked
GetNextUrlUnchecked(json) ==
    IF "_links" \notin DOMAIN json
    THEN [exc |-> "AttributeError", url |-> None]
    ELSE LET links == json["_links"]
             next_result == Get(links, "next", EmptyLink)
         IN  [exc |-> "none",
              url |-> Some([base |-> Get(links, "base", "None"),
                            path |-> next_result.path,
                            query |-> next_result.query])]

\* NextPageTokenPaginator.get_next_url
GetNextUrl(json) ==
    IF "_links" \notin DOMAIN json
    THEN [exc |-> "AttributeError", url |-> None]
    ELSE LET links == json["_links"]
             next_result == Get(links, "next", EmptyLink)
         IN  IF Falsy(next_result) THEN [exc |-> "none", url |-> None]
             ELSE [exc |-> "none",
                   url |-> Some([base |-> Get(links, "base", "None"),
                                 path |-> next_result.path,
                                 query |-> next_result.query])]

\* ConfluenceStream.parse_response
ParseResponse(json) ==
    IF "results" \in DOMAIN json
    THEN [exc |-> "none", records |-> json.results]
    ELSE [exc |-> "KeyError", records |-> <<>>]

(***************************************************************************)
(* Inputs of the model.                                                    *)
(***************************************************************************)
SeqsUpTo(S, n) == UNION {[1..k -> S] : k \in 0..n}

Checkpoints == {"", "2024-01-01 10:30"}

StartDates == {<<>>, [start_date |-> "2023-06-01T00:00:00Z"]}

SpaceKeyFields ==
    {<<>>, [space_keys |-> <<"DEV">>], [space_keys |-> <<"DEV", "OPS">>]}

AllConfigs ==
    {[base_url |-> BaseUrl] @@ sk @@ sd
        @@ [content_types |-> ct, file_extensions |-> fe] :
        sk \in SpaceKeyFields, sd \in StartDates,
        ct \in SeqsUpTo({"page", "attachment"}, MaxList),
        fe \in SeqsUpTo({"pdf", "docx"}, MaxList)}

AllEnvs ==
    {sk @@ ct @@ fe :
        sk \in {<<>>, [SPACE_KEYS |-> <<"DEV">>]},
        ct \in {<<>>, [CONTENT_TYPES |-> <<"page", Comma, Blank, "attachment">>],
                [CONTENT_TYPES |-> <<Blank>>]},
        fe \in {<<>>, [FILE_EXTENSIONS |-> <<"pdf", Blank, Comma, "docx">>]}}

Tokens ==
    {None} \cup {Some([base |-> BaseUrl, path |-> n.path, query |-> n.query]) :
                    n \in {Next1, Next2}}

PipelineConfigs ==
    {[base_url |-> BaseUrl, content_types |-> <<"page", "attachment">>,
      file_extensions |-> <<"pdf">>, start_date |-> "2023-06-01T00:00:00Z"]}

\* the records the pages of a sync hold
PipelineRows ==
    {[id |-> "1", type |-> "page", version |-> [when |-> When1],
      body |-> [storage |-> [value |-> Html]]],
     [id |-> "1", type |-> "attachment", version |-> [when |-> When2],
      title |-> "a.pdf", _links |-> [download |-> "/download/a.pdf"],
      body |-> [storage |-> [value |-> ""]]],
     [id |-> "1", type |-> "attachment", _links |-> <<>>]}

Pages ==
    {l @@ r : l \in LinksFieldsOfPage,
              r \in {<<>>} \cup {[results |-> b] : b \in SeqsUpTo(PipelineRows, MaxBatch)}}

\* does the page's link metadata declare a "next" relation
DeclaresNext(json) ==
    /\ "_links" \in DOMAIN json
    /\ "next" \in DOMAIN json["_links"]
    /\ json["_links"].next # EmptyLink

(***************************************************************************)
(* The sync of one stream.  RESTStream.request_records prepares a request  *)
(* with get_url_params, sends it, yields parse_response's records, each    *)
(* through post_process, and advances the paginator with get_next_url.     *)
(***************************************************************************)
\* tempfile.NamedTemporaryFile: a name no existing file has
FreshName(files) == CHOOSE n \in 1..(Cardinality(files) + 1) : n \notin files

\* the JSON body, its results array replaced by its length
Summary(json) ==
    [k \in DOMAIN json |-> IF k = "results" THEN Len(json[k]) ELSE json[k]]

\* prepare_request: get_url_params(context, paginator.current_value)
PrepareRequest ==
    /\ pc = "prepare"
    /\ nrequests < MaxPages
    /\ cql' = BuildCql(config, env, checkpoint)
    /\ request' = Some([path |-> path,
                        params |-> GetUrlParams(config, env, checkpoint, token)])
    /\ nrequests' = nrequests + 1
    /\ pc' = "send"
    /\ UNCHANGED <<config, env, checkpoint, token, resp, nexts, batches, queue,
                   last, tempFiles>>

\* a response arrives and parse_response reads its results
ReceiveResponse ==
    /\ pc = "send"
    /\ \E json \in Pages :
        LET parsed == ParseResponse(json)
        IN  /\ resp' = Some(Summary(json))
            /\ nexts' = Append(nexts, DeclaresNext(json))
            /\ pc' = IF parsed.exc # "none" THEN "failed" ELSE "records"
            /\ batches' = IF parsed.exc # "none" THEN batches ELSE batches + 1
            /\ queue' = parsed.records
    /\ last' = None
    /\ UNCHANGED <<config, env, checkpoint, token, cql, request, nrequests,
                   tempFiles>>

\* What the collaborators do in one post_process call.  A call uses the
\* converter or the fetcher, never both, so each is varied with the other
\* held at its success.
Scenarios ==
    {[conv |-> c, fault |-> "none", markdown |-> "# Hi"] : c \in ConvOutcomes}
    \cup {[conv |-> "Hi", fault |-> f, markdown |-> m] :
             f \in Faults, m \in Markdowns}

\* what the collaborators did in a post_process call, "-" where not called
Called(row, conv, fault, markdown, out) ==
    [row |-> row, out |-> out,
     conv |-> IF out.converted THEN conv ELSE "-",
     fault |-> IF out.fetched THEN fault ELSE "-",
     markdown |-> IF out.fetched /\ fault = "none" THEN markdown ELSE "-"]

\* get_records: post_process on the next record of the batch
ProcessRecord ==
    /\ pc = "records"
    /\ queue # <<>>
    /\ \E sc \in Scenarios :
        LET out == PostProcess(Head(queue), sc.conv, sc.fault, sc.markdown,
                               tempFiles, FreshName(tempFiles))
        IN  /\ last' = Some(Called(Head(queue), sc.conv, sc.fault, sc.markdown,
                                   out))
            /\ pc' = IF out.exc # "none" THEN "failed" ELSE "records"
            /\ tempFiles' = out.files
    /\ queue' = Tail(queue)
    /\ UNCHANGED <<config, env, checkpoint, token, cql, request, nrequests, resp,
                   nexts, batches>>

\* the batch is exhausted: request_records ends the walk at a page that
\* yielded no record, or paginator.advance(resp) asks get_next_url and
\* stops, goes on, or detects a loop
Advance ==
    /\ pc = "records"
    /\ queue = <<>>
    /\ \/ /\ resp[1].results = 0
          /\ pc' = "done"
          /\ token' = token
       \/ LET next == GetNextUrl(resp[1])
          IN  /\ pc' = IF next.exc # "none" THEN "failed"
                       ELSE IF next.url = None THEN "done"
                       ELSE IF next.url = token THEN "failed"
                       ELSE "prepare"
              /\ token' = IF next.exc = "none" /\ next.url # None
                             /\ next.url # token
                          THEN next.url ELSE token
    /\ last' = None
    /\ UNCHANGED <<config, env, checkpoint, cql, request, nrequests, resp, nexts,
                   batches, queue, tempFiles>>

\* a sync starts
Init ==
    /\ config \in PipelineConfigs
    /\ env = <<>>
    /\ checkpoint \in Checkpoints
    /\ pc = "prepare"
    /\ token = None /\ cql = <<>> /\ request = None /\ nrequests = 0
    /\ resp = None /\ nexts = <<>> /\ batches = 0
    /\ queue = <<>> /\ last = None /\ tempFiles = {}

Next ==
    \/ PrepareRequest
    \/ ReceiveResponse
    \/ ProcessRecord
    \/ Advance

Spec == Init /\ [][Next]_vars

\* get_url_params on every configuration, environment and page token
InitQuery ==
    /\ config \in AllConfigs
    /\ env \in AllEnvs
    /\ checkpoint \in Checkpoints
    /\ pc = "prepare"
    /\ token \in Tokens
    /\ cql = <<>> /\ request = None /\ nrequests = 0
    /\ resp = None /\ nexts = <<>> /\ batches = 0
    /\ queue = <<>> /\ last = None /\ tempFiles = {}

SpecQuery == InitQuery /\ [][PrepareRequest]_vars

\* post_process on every record, as the only record of a first page
InitRecord ==
    /\ config \in PipelineConfigs
    /\ env = <<>>
    /\ checkpoint = ""
    /\ pc = "records"
    /\ token = None
    /\ cql = BuildCql(config, env, checkpoint)
    /\ request = Some([path |-> path,
                       params |-> GetUrlParams(config, env, checkpoint, None)])
    /\ nrequests = 1
    /\ resp = Some([results |-> 1, _links |-> [base |-> BaseUrl]])
    /\ \E row \in AllRows : queue = <<row>>
    /\ nexts = <<FALSE>>
    /\ batches = 1
    /\ last = None
    /\ tempFiles \in {{}, {1}}

SpecRecord == InitRecord /\ [][ProcessRecord]_vars

(***************************************************************************)
(* Properties.                                                             *)
(***************************************************************************)
Processed == last # None

Row == last[1].row

Out == last[1].out

IsAttachment(row) == "type" \in DOMAIN row /\ row.type = "attachment"

HasDownloadLink(row) ==
    /\ "_links" \in DOMAIN row
    /\ "download" \in DOMAIN row["_links"]
    /\ row["_links"].download # ""

\* C1: every temporary file a fetch_attachment call created is gone when
\* the call returns, whatever step of the call failed.
C1_TempFileRemoved ==
    (Processed /\ Out.created # 0) => Out.created \notin tempFiles

\* C2: a response with link metadata and no results array is an empty batch
\* and no error when its links declare no "next", and a fatal error when
\* they do.
C2_MissingResultsTolerated ==
    (/\ resp # None
     /\ "results" \notin DOMAIN resp[1]
     /\ "_links" \in DOMAIN resp[1]) =>
        /\ DeclaresNext(resp[1]) => pc = "failed"
        /\ ~DeclaresNext(resp[1]) => pc # "failed"

\* C3: an attachment record with no download link is dropped: post_process
\* returns None, raises nothing and does not call the fetcher, whatever
\* else the record holds or lacks.
C3_AttachmentWithoutLinkDropped ==
    (Processed /\ IsAttachment(Row) /\ ~HasDownloadLink(Row)) =>
        /\ Out.exc = "none"
        /\ Out.ret = None
        /\ ~Out.fetched

\* C4: a converter failure on a record's body markup never aborts the run:
\* post_process raises nothing and the sync goes on.
C4_ConversionFailureSwallowed ==
    (Processed /\ last[1].conv = "raise") =>
        /\ Out.exc = "none"
        /\ pc # "failed"

\* C5: fetch_attachment raises nothing, whatever fails in it; when the
\* transport or the conversion fails it returns None, post_process drops
\* that record without raising and the sync stays in the batch.
C5_FetchFailureDropsRecord ==
    /\ \A f \in Faults, m \in Markdowns :
          LET r == FetchAttachment(f, m, tempFiles, FreshName(tempFiles))
          IN  /\ r.exc = "none"
              /\ f # "none" => r.ret = None
    /\ (Processed /\ last[1].fault \notin {"-", "none"}) =>
          /\ Out.exc = "none"
          /\ Out.ret = None
          /\ pc = "records"

\* C5 witness: a conversion failure inside a fetch, with records of the
\* batch still to come.
C5_Witness ==
    /\ Processed
    /\ last[1].fault = "convert"
    /\ Out.ret = None
    /\ pc = "records"
    /\ queue # <<>>

\* the fields of a link's query that parse_qsl keeps, as (key, value)
C6_Fields(link) ==
    {<<link.query[i][1], link.query[i][2]>> :
        i \in {j \in 1..Len(link.query) : link.query[j][2] # ""}}

\* the parameters the builder alone produces from the predicate list
C6_BuilderParams ==
    [expand |-> "", cql |-> Join(cql, " AND ") \o " ORDER BY lastmodified"]

\* the builder's parameters with the next link's fields laid over them
C6_Merged(link) ==
    [k \in DOMAIN C6_BuilderParams \cup {f[1] : f \in C6_Fields(link)} |->
        IF \E f \in C6_Fields(link) : f[1] = k
        THEN (CHOOSE f \in C6_Fields(link) : f[1] = k)[2]
        ELSE C6_BuilderParams[k]]

\* C6: one request per page; no request follows a response that declares no
\* "next"; a request after the first carries the previous response's next
\* query laid over the builder's parameters, on the same path; a walk over
\* pages of which only the first two declare "next" ends after exactly three
\* requests and three batches.
C6_WalkFollowsNextLinks ==
    /\ \A i \in 1..(Len(nexts) - 1) : nexts[i]
    /\ nrequests \in {Len(nexts), Len(nexts) + 1}
    /\ pc \in {"prepare", "send"} => nexts = <<>> \/ nexts[Len(nexts)]
    /\ pc = "prepare" => nrequests = Len(nexts)
    /\ pc = "send" => nrequests = Len(nexts) + 1
    /\ pc = "done" =>
          /\ nrequests = Len(nexts)
          /\ ~nexts[Len(nexts)] \/ resp[1].results = 0
    /\ pc = "send" =>
          /\ request[1].path = "/content/search"
          /\ nrequests = 1 => request[1].params = C6_BuilderParams
          /\ nrequests > 1 =>
                request[1].params = C6_Merged(resp[1]["_links"].next)
    /\ (pc = "done" /\ nexts = <<TRUE, TRUE, FALSE>>) =>
          nrequests = 3 /\ batches = 3

\* C6 witness: the three-page walk has ended, its second and third requests
\* having carried the fields of the next links.
C6_Witness ==
    /\ pc = "done"
    /\ nexts = <<TRUE, TRUE, FALSE>>
    /\ nrequests = 3
    /\ batches = 3
    /\ request[1].params.start = "10"
    /\ request[1].params.cql = "type=page"

C8_Types == ContentTypes(config, env)

C8_Extensions == FileExtensions(config, env)

C8_NotAttachment(t) == t # "attachment"

RECURSIVE C8_AnyExtension(_)
C8_AnyExtension(exts) ==
    IF Len(exts) = 1 THEN "sitesearch ~ \"file.extension:" \o exts[1] \o "\""
    ELSE "sitesearch ~ \"file.extension:" \o exts[1] \o "\" OR "
         \o C8_AnyExtension(Tail(exts))

C8_OtherForms ==
    {"space in (DEV)", "space in (DEV,OPS)"}
    \cup {"lastmodified > '" \o t \o "'" :
            t \in {"2024-01-01 10:30", "2023-06-01T00:00:00Z"}}

C8_IsTypeForm(p) == p \notin C8_OtherForms

\* the type and extension predicates of the expression
C8_TypeForms == SelectSeq(cql, C8_IsTypeForm)

\* C8: the expression holds exactly one of the four type/extension forms,
\* chosen by which of the two lists are non-empty.
C8_FourTypeExtensionForms ==
    pc = "send" =>
        /\ (C8_Types # <<>> /\ C8_Extensions = <<>>) =>
              C8_TypeForms = <<"type in (" \o Join(C8_Types, ",") \o ")">>
        /\ (C8_Types = <<>> /\ C8_Extensions # <<>>) =>
              C8_TypeForms =
                <<"((type != \"attachment\") OR (type = attachment AND ("
                  \o C8_AnyExtension(C8_Extensions) \o ")))">>
        /\ (C8_Types # <<>> /\ C8_Extensions # <<>>) =>
              C8_TypeForms =
                <<"((type in ("
                  \o Join(SelectSeq(C8_Types, C8_NotAttachment), ",")
                  \o ")) OR (type = attachment AND ("
                  \o C8_AnyExtension(C8_Extensions) \o ")))">>
        /\ (C8_Types = <<>> /\ C8_Extensions = <<>>) => C8_TypeForms = <<>>

\* C8 witness: both lists are set and "attachment" left the type list.
C8_Witness ==
    /\ pc = "send"
    /\ C8_Types = <<"page", "attachment">>
    /\ C8_Extensions = <<"pdf", "docx">>
    /\ C8_TypeForms =
         <<"((type in (page)) OR (type = attachment AND (sitesearch ~ \"file.extension:pdf\" OR sitesearch ~ \"file.extension:docx\")))">>

\* C9: a record that is no attachment, has a version timestamp and has no
\* body markup comes back with "_modified_time" added and every other field
\* as it was, and the converter is not called.
C9_EmptyBodyPassesThrough ==
    (/\ Processed
     /\ ~IsAttachment(Row)
     /\ "version" \in DOMAIN Row
     /\ "when" \in DOMAIN Row.version
     /\ IsIsoFormat(Row.version.when)
     /\ \/ "body" \notin DOMAIN Row
        \/ "storage" \notin DOMAIN Row.body
        \/ Row.body.storage.value = "") =>
        /\ Out.exc = "none"
        /\ Out.ret # None
        /\ ~Out.converted
        /\ ~Out.fetched
        /\ DOMAIN Out.ret[1] = DOMAIN Row \cup {"_modified_time"}
        /\ \A k \in DOMAIN Row : Out.ret[1][k] = Row[k]
        /\ Out.ret[1]["_modified_time"] =
              (IF Row.version.when = When1 THEN "2024-01-01 10:30"
               ELSE "2024-01-02 09:05")

\* C9 witness: a page with no body field at all was passed through.
C9_Witness ==
    /\ Processed
    /\ Row = [id |-> "1", type |-> "page", version |-> [when |-> When1]]
    /\ Out.ret = Some([id |-> "1", type |-> "page", version |-> [when |-> When1],
                       _modified_time |-> "2024-01-01 10:30"])

C10_StartDate == Get(config, "start_date", "")

C10_IsTimestampForm(p) ==
    p \in {"lastmodified > '" \o t \o "'" :
             t \in {"2024-01-01 10:30", "2023-06-01T00:00:00Z"}}

\* the lastmodified predicates of the expression
C10_TimestampForms == SelectSeq(cql, C10_IsTimestampForm)

\* C10: the expression holds a lastmodified predicate exactly when a
\* checkpoint or a start date exists, never two; it names the checkpoint
\* when there is one, and the start date only when there is none.
C10_CheckpointBeforeStartDate ==
    pc = "send" =>
        /\ Len(C10_TimestampForms) <= 1
        /\ Len(C10_TimestampForms) = 1 <=> (checkpoint # "" \/ C10_StartDate # "")
        /\ checkpoint # "" =>
              C10_TimestampForms = <<"lastmodified > '" \o checkpoint \o "'">>
        /\ (checkpoint = "" /\ C10_StartDate # "") =>
              C10_TimestampForms = <<"lastmodified > '" \o C10_StartDate \o "'">>

\* C10 witness: a checkpoint and a start date are both set and the request
\* carries the checkpoint.
C10_Witness ==
    /\ pc = "send"
    /\ checkpoint = "2024-01-01 10:30"
    /\ C10_StartDate = "2023-06-01T00:00:00Z"
    /\ C10_TimestampForms = <<"lastmodified > '2024-01-01 10:30'">>
    /\ request[1].params.cql = Join(cql, " AND ") \o " ORDER BY lastmodified"

====
